---- MODULE Spec2Model ----
(***************************************************************************)
(* Model of module/device/method/uiautomator_2.py: the `retry` decorator   *)
(* that wraps every device action of class Uiautomator2.                   *)
(*                                                                         *)
(* One dispatch is one call of retry_wrapper.  The wrapper's steps are     *)
(* sequenced by `pc`; the calls it makes to code outside this file (the    *)
(* wrapped body, adb_connect, install_uiautomator2, handle_adb_error) take *)
(* their outcomes from small sets.  `trace` records, in program order,     *)
(* every call, log line, sleep and outcome of the running dispatch.        *)
(*                                                                         *)
(* Failures range over subclasses of Exception: `except Exception` does    *)
(* not catch KeyboardInterrupt or SystemExit, which are not failures of a  *)
(* device call.                                                            *)
(***************************************************************************)
EXTENDS Integers, Sequences, FiniteSets, TLC

MaxTries == 3
MaxDispatch == 2
MaxPath == 3
MaxDragTries == 2
MaxSegments == 2
\* Real-valued coordinates are held as multiples of 1/Scale of a pixel.
Scale == 4
MaxSession == 6

\* module.device.method.utils.RETRY_DELAY, imported at line 10.
RETRY_DELAY == 3

VARIABLES
    RETRY_TRIES,   \* module.device.method.utils.RETRY_TRIES, as configured
    pc,            \* position in retry_wrapper
    func,          \* func.__name__ of the decorated method being dispatched
    i,             \* how many values the loop has taken from range(RETRY_TRIES)
    trace,         \* events of the running dispatch, in program order
    result,        \* how the running dispatch ended, as the caller sees it
    ndispatch,     \* dispatches started on this session
    earlier,       \* body invocations made by the earlier dispatches
    path,          \* the argument of _drag_along
    index,         \* _drag_along: the index enumerate(path) has reached
    synth,         \* drag_uiautomator2: its arguments, samples and locals
    session        \* the cached property u2 of the Uiautomator2 object

vars == <<RETRY_TRIES, pc, func, i, trace, result, ndispatch, earlier,
          path, index, synth, session>>

\* What retry_wrapper itself never touches.
others == <<path, index, synth, session>>

---------------------------------------------------------------------------
\* Values

\* Decorated methods of Uiautomator2 that make one call on self.u2 (all are
\* wrapped alike; app_start has an except clause of its own).  _drag_along,
\* which makes one call per waypoint, has actions of its own below.
Funcs ==
    {"screenshot_uiautomator2", "click_uiautomator2", "long_click_uiautomator2",
     "swipe_uiautomator2", "app_current_uiautomator2", "app_start_uiautomator2",
     "app_stop_uiautomator2", "dump_hierarchy_uiautomator2"}

\* The call each of them makes on self.u2.
u2_method(f) ==
    CASE f = "screenshot_uiautomator2" -> "screenshot"
      [] f = "click_uiautomator2" -> "click"
      [] f = "long_click_uiautomator2" -> "long_click"
      [] f = "swipe_uiautomator2" -> "swipe"
      [] f = "app_current_uiautomator2" -> "app_current"
      [] f = "app_start_uiautomator2" -> "app_start"
      [] f = "app_stop_uiautomator2" -> "app_stop"
      [] f = "dump_hierarchy_uiautomator2" -> "dump_hierarchy"

\* What a body may return: None (click, ...) or a value (a package name, an
\* image, a hierarchy).
Values == {"None", "com.bilibili.azurlane"}

\* Exception classes and their bases (each class is a base of itself).
Bases ==
    [ RequestHumanTakeover |-> {"RequestHumanTakeover", "Exception"},
      ConnectionResetError |-> {"ConnectionResetError", "ConnectionError", "OSError", "Exception"},
      JSONDecodeError      |-> {"JSONDecodeError", "ValueError", "Exception"},
      AdbError             |-> {"AdbError", "Exception"},
      RuntimeError         |-> {"RuntimeError", "Exception"},
      AssertionError       |-> {"AssertionError", "Exception"},
      ValueError           |-> {"ValueError", "Exception"},
      OSError              |-> {"OSError", "Exception"},
      BaseError            |-> {"BaseError", "Exception"} ]

isinstance(e, cls) == cls \in Bases[e.type]

\* An exception instance: its class and the arguments it was built with.
Exc(type, args) == [type |-> type, args |-> args]

\* str(e)
str(e) == IF e.args = <<>> THEN "" ELSE e.args[1]

\* Failures the wrapped body may raise.  The text matters to handle_adb_error only.
BodyErrors ==
    { Exc(t, <<>>) : t \in DOMAIN Bases }
        \cup { Exc(t, <<"is offline">>) : t \in {"AdbError", "RuntimeError"} }

\* Failures a recovery call (adb_connect, install_uiautomator2) may raise.
RecoveryErrors == { Exc("RequestHumanTakeover", <<>>), Exc("AdbError", <<"closed">>) }

\* module.device.method.utils.handle_adb_error: True when the text of the
\* error names a condition it knows how to survive, False otherwise.
handle_adb_error(e) == str(e) \in {"is offline"}

Ev(op, arg) == [op |-> op, arg |-> arg]

\* How a dispatch ends for its caller.
NoResult == [kind |-> "none", value |-> "None", exc |-> Exc("None", <<>>)]
Returned(v) == [kind |-> "return", value |-> v, exc |-> Exc("None", <<>>)]
Raised(e) == [kind |-> "raise", value |-> "None", exc |-> e]

RECURSIVE Count(_, _)
Count(tr, op) ==
    IF tr = <<>> THEN 0
    ELSE (IF Head(tr).op = op THEN 1 ELSE 0) + Count(Tail(tr), op)

Calls(tr) == Count(tr, "call")

---------------------------------------------------------------------------
\* The decorated methods

\* Faulty variant: app_start without its except clause.
body_plain(f, e) == [raises |-> e, log |-> <<>>]

\* What a decorated method raises when its call on self.u2 raised e, and what
\* it logs first.  app_start_uiautomator2 turns a u2 BaseError ("package not
\* found") into RequestHumanTakeover; the other methods catch nothing.
body(f, e) ==
    IF f = "app_start_uiautomator2" /\ isinstance(e, "BaseError")
    THEN [raises |-> Exc("RequestHumanTakeover", <<>>),
          log |-> <<Ev("logger.error", e.type), Ev("possible_reasons", "PackageName")>>]
    ELSE [raises |-> e, log |-> <<>>]

---------------------------------------------------------------------------
\* retry_wrapper, piece by piece

\* Faulty variant: the loop counter kept across calls of the wrapper.
range_iter_kept(old) == old

\* `for _ in range(RETRY_TRIES)`: a new iterator for every call of the wrapper.
range_iter(old) == 0

\* Faulty variant: `while True`.
for_next_forever(n) == TRUE

\* Faulty variant: range(RETRY_TRIES - 1).
for_next_short(n) == n < RETRY_TRIES - 1

\* The loop takes another value while the range has one.
for_next(n) == n < RETRY_TRIES

\* Faulty variant: the body's value dropped (`func(...)` without `return` of it).
return_func_dropped(v) == "None"

\* `return func(self, *args, **kwargs)`
return_func(v) == v

\* Faulty variants of the except clauses.
on_RequestHumanTakeover_retried(e) == [to |-> "sleep", log |-> <<>>]

on_JSONDecodeError_reconnects(e) ==
    [to |-> "adb_connect", log |-> <<Ev("logger.error", e.type)>>]

on_RuntimeError_unchecked(e) ==
    [to |-> "sleep", log |-> <<Ev("handle_adb_error", e.type)>>]

on_AssertionError_retried(e) ==
    [to |-> "sleep",
     log |-> <<Ev("logger.exception", e.type), Ev("possible_reasons", "enable ADB")>>]

on_Exception_breaks(e) ==
    [to |-> "break", log |-> <<Ev("logger.exception", e.type)>>]

\* The except clauses: where control goes and what is logged on the way.
on_RequestHumanTakeover(e) == [to |-> "break", log |-> <<>>]

on_ConnectionResetError(e) ==
    [to |-> "adb_connect", log |-> <<Ev("logger.error", e.type)>>]

on_JSONDecodeError(e) ==
    [to |-> "install_uiautomator2", log |-> <<Ev("logger.error", e.type)>>]

on_AdbError(e) ==
    [to |-> IF ~handle_adb_error(e) THEN "break" ELSE "sleep",
     log |-> <<Ev("handle_adb_error", e.type)>>]

on_RuntimeError(e) ==
    [to |-> IF ~handle_adb_error(e) THEN "break" ELSE "sleep",
     log |-> <<Ev("handle_adb_error", e.type)>>]

on_AssertionError(e) ==
    [to |-> "break",
     log |-> <<Ev("logger.exception", e.type), Ev("possible_reasons", "enable ADB")>>]

on_Exception(e) ==
    [to |-> "sleep", log |-> <<Ev("logger.exception", e.type)>>]

\* The try statement picks the first clause whose class the error is an instance of.
except_clause(e) ==
    IF isinstance(e, "RequestHumanTakeover") THEN on_RequestHumanTakeover(e)
    ELSE IF isinstance(e, "ConnectionResetError") THEN on_ConnectionResetError(e)
    ELSE IF isinstance(e, "JSONDecodeError") THEN on_JSONDecodeError(e)
    ELSE IF isinstance(e, "AdbError") THEN on_AdbError(e)
    ELSE IF isinstance(e, "RuntimeError") THEN on_RuntimeError(e)
    ELSE IF isinstance(e, "AssertionError") THEN on_AssertionError(e)
    ELSE on_Exception(e)

\* Faulty variant: the line names the wrapper, not the wrapped method.
critical_message_unnamed(f) == <<"Retry ", "retry_wrapper", "() failed">>

\* logger.critical(f'Retry {func.__name__}() failed')
critical_message(f) == <<"Retry ", f, "() failed">>

\* `raise RequestHumanTakeover`: the class is raised with no arguments.
raise_args(f) == <<>>

---------------------------------------------------------------------------
\* Actions

Init ==
    /\ RETRY_TRIES \in 1..MaxTries
    /\ pc = "idle"
    /\ func = "click_uiautomator2"
    /\ i = 0
    /\ trace = <<>>
    /\ result = NoResult
    /\ ndispatch = 0
    /\ earlier = 0
    /\ path = <<>>
    /\ index = 0
    /\ synth = [pc |-> "idle"]
    /\ session = [pc |-> "idle"]

\* A decorated method is invoked: retry_wrapper starts its loop.
retry_enter(f) ==
    /\ pc \in {"idle", "done"}
    /\ ndispatch < MaxDispatch
    /\ func' = f
    /\ i' = range_iter(i)
    /\ trace' = <<>>
    /\ result' = NoResult
    /\ ndispatch' = ndispatch + 1
    /\ earlier' = earlier + Calls(trace)
    /\ pc' = "for"
    /\ UNCHANGED RETRY_TRIES

\* The caller invokes a decorated method; only one is in flight at a time.
retry_wrapper(f) ==
    /\ retry_enter(f)
    /\ UNCHANGED others

\* An iteration whose body returns: the wrapper returns its value.
func_returns(v) ==
    /\ pc = "for"
    /\ for_next(i)
    /\ i' = i + 1
    /\ trace' = trace \o <<Ev("call", func), Ev("u2", u2_method(func)),
                           Ev("func.return", v), Ev("return", return_func(v))>>
    /\ result' = Returned(return_func(v))
    /\ pc' = "done"
    /\ UNCHANGED <<RETRY_TRIES, func, ndispatch, earlier>>
    /\ UNCHANGED others

\* An iteration whose body raises: the call on self.u2 raised e, the method
\* let it through (or replaced it), and the matching except clause runs.
func_raises(e) ==
    /\ pc = "for"
    /\ for_next(i)
    /\ i' = i + 1
    /\ LET raised == body(func, e).raises
       IN /\ trace' = trace \o <<Ev("call", func), Ev("u2", u2_method(func)),
                                   Ev("u2.raise", e)>>
                          \o body(func, e).log
                          \o <<Ev("func.raise", raised)>>
                          \o except_clause(raised).log
          /\ pc' = except_clause(raised).to
    /\ UNCHANGED <<RETRY_TRIES, func, result, ndispatch, earlier>>
    /\ UNCHANGED others

\* self.adb_connect(self.serial) inside `except ConnectionResetError`.
adb_connect_returns ==
    /\ pc = "adb_connect"
    /\ trace' = Append(trace, Ev("adb_connect", "serial"))
    /\ pc' = "sleep"
    /\ UNCHANGED <<RETRY_TRIES, func, i, result, ndispatch, earlier>>
    /\ UNCHANGED others

\* self.install_uiautomator2() inside `except JSONDecodeError`.
install_uiautomator2_returns ==
    /\ pc = "install_uiautomator2"
    /\ trace' = Append(trace, Ev("install_uiautomator2", ""))
    /\ pc' = "sleep"
    /\ UNCHANGED <<RETRY_TRIES, func, i, result, ndispatch, earlier>>
    /\ UNCHANGED others

\* A recovery call that raises: an exception raised inside an except clause
\* is not caught by the sibling clauses and leaves the wrapper.
recovery_raises(e) ==
    /\ pc \in {"adb_connect", "install_uiautomator2"}
    /\ trace' = trace \o <<Ev(pc, IF pc = "adb_connect" THEN "serial" ELSE ""),
                           Ev("raise", e)>>
    /\ result' = Raised(e)
    /\ pc' = "done"
    /\ UNCHANGED <<RETRY_TRIES, func, i, ndispatch, earlier>>
    /\ UNCHANGED others

\* self.sleep(RETRY_DELAY) at the end of an iteration that did not break.
sleep ==
    /\ pc = "sleep"
    /\ trace' = Append(trace, Ev("sleep", RETRY_DELAY))
    /\ pc' = "for"
    /\ UNCHANGED <<RETRY_TRIES, func, i, result, ndispatch, earlier>>
    /\ UNCHANGED others

\* After the loop (range exhausted, or break): log and raise.
after_loop ==
    /\ pc = "break" \/ (pc = "for" /\ ~for_next(i))
    /\ trace' = trace \o <<Ev("logger.critical", critical_message(func)),
                           Ev("raise", Exc("RequestHumanTakeover", raise_args(func)))>>
    /\ result' = Raised(Exc("RequestHumanTakeover", raise_args(func)))
    /\ pc' = "done"
    /\ UNCHANGED <<RETRY_TRIES, func, i, ndispatch, earlier>>
    /\ UNCHANGED others

Next ==
    \/ \E f \in Funcs : retry_wrapper(f)
    \/ \E v \in Values : func_returns(v)
    \/ \E e \in BodyErrors : func_raises(e)
    \/ adb_connect_returns
    \/ install_uiautomator2_returns
    \/ \E e \in RecoveryErrors : recovery_raises(e)
    \/ sleep
    \/ after_loop

Spec == Init /\ [][Next]_vars

\* A step inside a dispatch: a call of the body, of adb_connect, of
\* install_uiautomator2 or of sleep that ends, or the code after the loop.
dispatch_step ==
    \/ \E v \in Values : func_returns(v)
    \/ \E e \in BodyErrors : func_raises(e)
    \/ adb_connect_returns
    \/ install_uiautomator2_returns
    \/ \E e \in RecoveryErrors : recovery_raises(e)
    \/ sleep
    \/ after_loop

\* Every call made inside a dispatch ends: a dispatch that can take a step
\* takes one.  When the next dispatch starts is up to the caller.
SpecFair == Spec /\ WF_vars(dispatch_step)

---------------------------------------------------------------------------
\* _drag_along under retry_wrapper

\* The path of the docstring of _drag_along: (x, y, sleep), the sleep in
\* milliseconds (0.2 s = 200).
ExamplePath ==
    << <<403, 421, 200>>, <<821, 326, 100>>, <<821, 316, 100>>,
       <<821, 336, 100>>, <<821, 326, 0>> >>

\* The paths _drag_along is given: the first n points of the example.
Paths == { SubSeq(ExamplePath, 1, n) : n \in 0..MaxPath }

\* What a call on self.u2.touch may raise.
TouchErrors ==
    { Exc(t, <<>>) : t \in {"ConnectionResetError", "JSONDecodeError",
                            "ValueError", "AssertionError"} }

\* Faulty variant: the traversal resumes where the failed attempt stopped.
enumerate_start_kept(old) == old

\* `for index, data in enumerate(path)`: every call of the body starts at 0.
enumerate_start(old) == 0

\* Faulty variant: `index - length == 0`, which no index satisfies.
touch_phase_no_up(idx, length) ==
    IF idx = 0 THEN "touch.down"
    ELSE IF idx - length = 0 THEN "touch.up"
    ELSE "touch.move"

\* The if/elif/else on index (0-based) and length.
touch_phase(idx, length) ==
    IF idx = 0 THEN "touch.down"
    ELSE IF idx - length = -1 THEN "touch.up"
    ELSE "touch.move"

\* What one iteration over a waypoint does when the device call succeeds.
touch_events(idx, data, length) ==
    << Ev(touch_phase(idx, length), <<data[1], data[2]>>),
       Ev("logger.info", <<data[1], data[2]>>),
       Ev("sleep", data[3]) >>

InitDrag ==
    /\ RETRY_TRIES \in 1..MaxDragTries
    /\ pc = "idle"
    /\ func = "_drag_along"
    /\ i = 0
    /\ trace = <<>>
    /\ result = NoResult
    /\ ndispatch = 0
    /\ earlier = 0
    /\ path \in Paths
    /\ index = 0
    /\ synth = [pc |-> "idle"]
    /\ session = [pc |-> "idle"]

\* An iteration of the retry loop calls the body, which starts its own loop.
drag_call ==
    /\ pc = "for"
    /\ for_next(i)
    /\ i' = i + 1
    /\ trace' = Append(trace, Ev("call", func))
    /\ index' = enumerate_start(index)
    /\ pc' = "path"
    /\ UNCHANGED <<RETRY_TRIES, func, result, ndispatch, earlier, path, synth, session>>

\* The device call for waypoint `index` succeeds; log; sleep its hold time.
touch_returns ==
    /\ pc = "path"
    /\ index < Len(path)
    /\ trace' = trace \o touch_events(index, path[index + 1], Len(path))
    /\ index' = index + 1
    /\ UNCHANGED <<RETRY_TRIES, pc, func, i, result, ndispatch, earlier, path, synth, session>>

\* The device call for waypoint `index` raises: the body is left, the
\* matching except clause of retry_wrapper runs.
touch_raises(e) ==
    /\ pc = "path"
    /\ index < Len(path)
    /\ LET raised == body(func, e).raises
       IN /\ trace' = trace \o <<Ev("u2", touch_phase(index, Len(path))),
                                   Ev("u2.raise", e), Ev("func.raise", raised)>>
                          \o except_clause(raised).log
          /\ pc' = except_clause(raised).to
    /\ UNCHANGED <<RETRY_TRIES, func, i, result, ndispatch, earlier, path, index, synth, session>>

\* The loop over the path is over: the body returns None, and so does the wrapper.
drag_returns ==
    /\ pc = "path"
    /\ index >= Len(path)
    /\ trace' = trace \o <<Ev("func.return", "None"), Ev("return", return_func("None"))>>
    /\ result' = Returned(return_func("None"))
    /\ pc' = "done"
    /\ UNCHANGED <<RETRY_TRIES, func, i, ndispatch, earlier, path, index, synth, session>>

NextDrag ==
    \/ retry_wrapper("_drag_along")
    \/ drag_call
    \/ touch_returns
    \/ \E e \in TouchErrors : touch_raises(e)
    \/ drag_returns
    \/ adb_connect_returns
    \/ install_uiautomator2_returns
    \/ \E e \in RecoveryErrors : recovery_raises(e)
    \/ sleep
    \/ after_loop

SpecDrag == InitDrag /\ [][NextDrag]_vars

---------------------------------------------------------------------------
\* drag_uiautomator2: the path it computes and hands to _drag_along
\*
\* Before line 158 a coordinate is a real number, held as an integer count of
\* 1/Den pixels, Den = Scale * segments, so that the interpolation of
\* random_line_segments is exact; after line 158 it is a whole number of
\* pixels.  A duration is a count of milliseconds.

Den(segments) == Scale * segments

Vec(x, y) == <<x, y>>
VAdd(a, b) == <<a[1] + b[1], a[2] + b[2]>>
VSub(a, b) == <<a[1] - b[1], a[2] - b[2]>>
VMul(k, a) == <<k * a[1], k * a[2]>>

\* Arguments of drag_uiautomator2, in 1/Scale pixels: whole and fractional points.
P1s == { Vec(403 * Scale, 421 * Scale), Vec(2 * Scale + (Scale - 1), -(1 * Scale) - 1) }
P2s == { Vec(821 * Scale, 326 * Scale), Vec(10 * Scale + 1, 7 * Scale + (Scale - 1)),
         Vec(-(3 * Scale) - (Scale - 1), 5 * Scale) }
Shakes == { Vec(0, 15 * Scale), Vec(1, 15 * Scale + 1) }
\* Rectangles (x0, y0, x1, y1), in whole pixels.
Rects == { <<0, 0, 0, 0>>, <<0, -1, 0, 0>> }
SwipeDurations == {250}
ShakeDurations == {100}

\* module.base.utils.random_rectangle_point(area): a point of the rectangle,
\* in whole pixels.
random_rectangle_point(area) ==
    { Vec(x, y) : x \in area[1]..area[3], y \in area[2]..area[4] }

\* module.base.utils.random_line_segments(p1, p2, n, random_range): the n + 1
\* points that cut the line from p1 to p2 into n equal segments, each moved by
\* its own sample js[k] of random_range.  p1 and p2 are in 1/Den pixels and
\* multiples of n, so the division is exact.
random_line_segments(p1, p2, n, js) ==
    [k \in 1..(n + 1) |->
        VAdd(<<(((n - (k - 1)) * p1[1]) + ((k - 1) * p2[1])) \div n,
               (((n - (k - 1)) * p1[2]) + ((k - 1) * p2[2])) \div n>>,
             VMul(Scale * n, js[k]))]

\* `np.array(p) - random_rectangle_point(point_random)`, in 1/Den pixels.
jitter_endpoint(p, j, n) == VSub(VMul(n, p), VMul(Scale * n, j))

\* `[(x, y, swipe_duration) for x, y in random_line_segments(...)]`
line_path(points, d) == [k \in DOMAIN points |-> <<points[k][1], points[k][2], d>>]

\* Faulty variant: the settle waypoint forgotten.
shake_tail_no_settle(p2, shake, ja, jb, d) ==
    << <<VAdd(VAdd(p2, shake), ja)[1], VAdd(VAdd(p2, shake), ja)[2], d>>,
       <<VSub(VSub(p2, shake), jb)[1], VSub(VSub(p2, shake), jb)[2], d>> >>

\* Faulty variant: the correction on the same side as the overshoot.
shake_tail_same_side(p2, shake, ja, jb, d) ==
    << <<VAdd(VAdd(p2, shake), ja)[1], VAdd(VAdd(p2, shake), ja)[2], d>>,
       <<VSub(VAdd(p2, shake), jb)[1], VSub(VAdd(p2, shake), jb)[2], d>>,
       <<p2[1], p2[2], d>> >>

\* The three waypoints appended at lines 153-157.
shake_tail(p2, shake, ja, jb, d) ==
    << <<VAdd(VAdd(p2, shake), ja)[1], VAdd(VAdd(p2, shake), ja)[2], d>>,
       <<VSub(VSub(p2, shake), jb)[1], VSub(VSub(p2, shake), jb)[2], d>>,
       <<p2[1], p2[2], d>> >>

\* Faulty variant: math.floor(x).
int_floor(v, den) == v \div den

\* int(x) of the real number v / den: the fraction is dropped, towards zero.
\* The result is a whole number of pixels.
int(v, den) == IF v >= 0 THEN v \div den ELSE -((-v) \div den)

\* `path = [(int(x), int(y), d) for x, y, d in path]`
int_path(raw, den) ==
    [k \in DOMAIN raw |-> <<int(raw[k][1], den), int(raw[k][2], den), raw[k][3]>>]

InitSynth ==
    /\ RETRY_TRIES = 1
    /\ pc = "idle"
    /\ func = "None"
    /\ i = 0
    /\ trace = <<>>
    /\ result = NoResult
    /\ ndispatch = 0
    /\ earlier = 0
    /\ path = <<>>
    /\ index = 0
    /\ session = [pc |-> "idle"]
    /\ \E a \in P1s, b \in P2s, n \in 1..MaxSegments, sh \in Shakes,
          pr \in Rects, sr \in Rects, d1 \in SwipeDurations, d2 \in ShakeDurations :
            synth = [pc |-> "args",
                     args |-> [p1 |-> a, p2 |-> b, segments |-> n, shake |-> sh,
                               point_random |-> pr, shake_random |-> sr,
                               swipe_duration |-> d1, shake_duration |-> d2],
                     p1 |-> Vec(0, 0), p2 |-> Vec(0, 0),
                     ja |-> Vec(0, 0), jb |-> Vec(0, 0),
                     raw |-> <<>>, path |-> <<>>]

retryvars == <<RETRY_TRIES, pc, func, i, trace, result, ndispatch, earlier>>

\* Lines 150-151: both end points moved by a sample of point_random.
jitter_endpoints(j1, j2) ==
    /\ synth.pc = "args"
    /\ synth' = [synth EXCEPT
                    !.pc = "line",
                    !.p1 = jitter_endpoint(synth.args.p1, j1, synth.args.segments),
                    !.p2 = jitter_endpoint(synth.args.p2, j2, synth.args.segments)]
    /\ UNCHANGED <<retryvars, path, index, session>>

\* Line 152.
line_segments(js) ==
    /\ synth.pc = "line"
    /\ synth' = [synth EXCEPT
                    !.pc = "tail",
                    !.raw = line_path(random_line_segments(synth.p1, synth.p2,
                                                           synth.args.segments, js),
                                      synth.args.swipe_duration)]
    /\ UNCHANGED <<retryvars, path, index, session>>

\* Lines 153-157.
shake(ja, jb) ==
    /\ synth.pc = "tail"
    /\ synth' = [synth EXCEPT
                    !.pc = "int",
                    !.ja = ja,
                    !.jb = jb,
                    !.raw = synth.raw \o
                        shake_tail(synth.p2,
                                   VMul(synth.args.segments, synth.args.shake),
                                   VMul(Den(synth.args.segments), ja),
                                   VMul(Den(synth.args.segments), jb),
                                   synth.args.shake_duration)]
    /\ UNCHANGED <<retryvars, path, index, session>>

\* Line 158.
to_int ==
    /\ synth.pc = "int"
    /\ synth' = [synth EXCEPT
                    !.pc = "_drag_along",
                    !.path = int_path(synth.raw, Den(synth.args.segments))]
    /\ UNCHANGED <<retryvars, path, index, session>>

\* Line 159: `self._drag_along(path)`, a dispatch through retry_wrapper with
\* the path of line 158 as its argument.
drag_along ==
    /\ synth.pc = "_drag_along"
    /\ retry_enter("_drag_along")
    /\ path' = synth.path
    /\ synth' = [synth EXCEPT !.pc = "called"]
    /\ UNCHANGED <<index, session>>

NextSynth ==
    \/ \E j1, j2 \in random_rectangle_point(synth.args.point_random) :
            jitter_endpoints(j1, j2)
    \/ \E js \in [1..(synth.args.segments + 1) ->
                    random_rectangle_point(synth.args.point_random)] : line_segments(js)
    \/ \E ja, jb \in random_rectangle_point(synth.args.shake_random) : shake(ja, jb)
    \/ to_int
    \/ drag_along
    \/ drag_call
    \/ touch_returns
    \/ \E e \in TouchErrors : touch_raises(e)
    \/ drag_returns
    \/ adb_connect_returns
    \/ install_uiautomator2_returns
    \/ \E e \in RecoveryErrors : recovery_raises(e)
    \/ sleep
    \/ after_loop

SpecSynth == InitSynth /\ [][NextSynth]_vars

---------------------------------------------------------------------------
\* Reading the trace

IsPrefix(s, t) == Len(s) <= Len(t) /\ s = SubSeq(t, 1, Len(s))

Ops(s) == [q \in DOMAIN s |-> s[q].op]

\* Positions where an attempt of the body failed / succeeded.
Failures == { p \in DOMAIN trace : trace[p].op = "func.raise" }
Successes == { p \in DOMAIN trace : trace[p].op = "func.return" }

\* The attempt (1, 2, ...) that position p belongs to.
AttemptNo(p) == Calls(SubSeq(trace, 1, p))

\* Everything after position p.
After(p) == SubSeq(trace, p + 1, Len(trace))

\* The position of the next attempt's call after p, Len(trace) + 1 when there is none.
NextCall(p) ==
    LET later == { q \in DOMAIN trace : q > p /\ trace[q].op = "call" }
    IN IF later = {} THEN Len(trace) + 1
       ELSE CHOOSE q \in later : \A r \in later : q <= r

\* What happened between the failure at p and the next attempt (or the end).
Segment(p) == SubSeq(trace, p + 1, NextCall(p) - 1)

\* Nothing more will be added to Segment(p).
SegmentDone(p) == NextCall(p) <= Len(trace) \/ pc = "done"

\* The kinds of failure, by class.
IsTakeover(e) == "RequestHumanTakeover" \in Bases[e.type]
IsReset(e) == "ConnectionResetError" \in Bases[e.type]
IsJson(e) == "JSONDecodeError" \in Bases[e.type]
IsTransport(e) == "AdbError" \in Bases[e.type] \/ "RuntimeError" \in Bases[e.type]
IsAssertion(e) == "AssertionError" \in Bases[e.type]
IsUnknown(e) ==
    Bases[e.type] \cap {"RequestHumanTakeover", "ConnectionResetError", "JSONDecodeError",
                        "AdbError", "RuntimeError", "AssertionError"} = {}

\* A Retryable cause: an unknown error, or a transport error the helper handled.
IsRetryable(e) == IsUnknown(e) \/ (IsTransport(e) /\ handle_adb_error(e))

\* The caller got the escalation signal.
Escalated == result.kind = "raise" /\ result.exc.type = "RequestHumanTakeover"

\* The dispatch ended because range(RETRY_TRIES) ran out (not because of a break).
Exhausted ==
    /\ pc = "done"
    /\ Len(trace) >= 2
    /\ trace[Len(trace) - 1].op = "logger.critical"
    /\ (Len(trace) = 2 \/ trace[Len(trace) - 2].op = "sleep")

\* After the failure at p the wrapper logged `logs`, slept RETRY_DELAY and went
\* on: to the next attempt while one remains, to the escalation otherwise.
RetriedAfter(p, logs) ==
    LET expected == logs \o <<"sleep">> \o
                    (IF AttemptNo(p) < RETRY_TRIES THEN <<>>
                     ELSE <<"logger.critical", "raise">>)
    IN /\ IsPrefix(Ops(Segment(p)), expected)
       /\ SegmentDone(p) => Ops(Segment(p)) = expected
       /\ \A q \in DOMAIN Segment(p) :
            Segment(p)[q].op = "sleep" => Segment(p)[q].arg = RETRY_DELAY
       /\ (pc = "done" /\ AttemptNo(p) < RETRY_TRIES) => NextCall(p) <= Len(trace)

\* After the failure at p the wrapper logged `logs` and stopped: no further
\* attempt, no recovery call, no sleep, only the escalation.
StoppedAfter(p, logs) ==
    LET expected == logs \o <<"logger.critical", "raise">>
    IN /\ IsPrefix(Ops(After(p)), expected)
       /\ Calls(trace) = AttemptNo(p)
       /\ pc \in {"break", "done"}
       /\ pc = "done" => (Ops(After(p)) = expected /\ Escalated)

---------------------------------------------------------------------------
\* Claims

\* C1: for every RETRY_TRIES = N, a dispatch whose body fails on every attempt
\* with a Retryable cause invokes the body exactly N times and then raises
\* RequestHumanTakeover exactly once.
C1_AlwaysRetryableRunsNTimes ==
    (/\ pc = "done"
     /\ Successes = {}
     /\ \A p \in Failures : IsRetryable(trace[p].arg))
        => /\ Calls(trace) = RETRY_TRIES
           /\ Escalated
           /\ Count(trace, "raise") = 1
           /\ trace[Len(trace)].op = "raise"

C1_Witness ==
    /\ pc = "done"
    /\ RETRY_TRIES = 3
    /\ Successes = {}
    /\ Calls(trace) = 3
    /\ \A p \in Failures : IsRetryable(trace[p].arg)
    /\ \E p \in Failures : IsUnknown(trace[p].arg)
    /\ \E p \in Failures : IsTransport(trace[p].arg)
    /\ Escalated

\* C2: whatever the body raises, one dispatch invokes the body at most
\* RETRY_TRIES times, and the counter is per dispatch: a dispatch that runs
\* out of attempts has made all RETRY_TRIES of them itself, whatever the
\* earlier dispatches on the session consumed.
C2_AtMostNPerDispatch ==
    /\ Calls(trace) <= RETRY_TRIES
    /\ Exhausted => Calls(trace) = RETRY_TRIES
    /\ (pc = "for" /\ Calls(trace) < RETRY_TRIES) => ENABLED func_returns("None")

C2_Witness ==
    /\ ndispatch = 2
    /\ earlier = RETRY_TRIES
    /\ RETRY_TRIES >= 2
    /\ Exhausted
    /\ Calls(trace) = RETRY_TRIES

\* C3: when the body raises RequestHumanTakeover on attempt k, nothing follows
\* that attempt but the critical log line and the escalation signal: no
\* further invocation (k in total), no recovery call, no sleep.
C3_TakeoverStopsAtOnce ==
    \A p \in Failures : IsTakeover(trace[p].arg) => StoppedAfter(p, <<>>)

C3_Witness ==
    /\ pc = "done"
    /\ Escalated
    /\ \E p \in Failures : IsTakeover(trace[p].arg) /\ AttemptNo(p) = 2
    /\ RETRY_TRIES = 3

\* C4: between a failed attempt and the next attempt there is exactly one
\* adb_connect call when the failure was a connection reset, exactly one
\* install_uiautomator2 call when it was a malformed JSON response, and no
\* recovery call at all when the failure was plainly Retryable.
C4_OneRecoveryPerFailure ==
    \A p \in Failures :
        LET e == trace[p].arg
            reconnects == Count(Segment(p), "adb_connect")
            reinstalls == Count(Segment(p), "install_uiautomator2")
        IN /\ IsReset(e) =>
                /\ reconnects <= 1 /\ reinstalls = 0
                /\ SegmentDone(p) => reconnects = 1
           /\ IsJson(e) =>
                /\ reinstalls <= 1 /\ reconnects = 0
                /\ SegmentDone(p) => reinstalls = 1
           /\ IsRetryable(e) => (reconnects = 0 /\ reinstalls = 0)

C4_Witness ==
    /\ pc = "done"
    /\ \E p \in Failures : IsReset(trace[p].arg) /\ NextCall(p) <= Len(trace)
    /\ \E p \in Failures : IsJson(trace[p].arg) /\ NextCall(p) <= Len(trace)
    /\ \E p \in Failures : IsRetryable(trace[p].arg)

\* C5: when the body fails k < RETRY_TRIES times with connection resets and
\* then succeeds, the dispatch returns the successful attempt's value,
\* adb_connect was called exactly k times, the body is not invoked again and
\* nothing is escalated.
C5_ReconnectThenSuccess ==
    \A p \in Successes :
        (\A q \in Failures : IsReset(trace[q].arg)) =>
            LET k == Cardinality(Failures)
            IN /\ k < RETRY_TRIES
               /\ pc = "done"
               /\ result = Returned(trace[p].arg)
               /\ Count(trace, "adb_connect") = k
               /\ Calls(trace) = k + 1
               /\ Count(trace, "raise") = 0
               /\ Count(trace, "logger.critical") = 0

C5_Witness ==
    /\ RETRY_TRIES = 3
    /\ Cardinality(Failures) = 2
    /\ \A q \in Failures : IsReset(trace[q].arg)
    /\ result = Returned("com.bilibili.azurlane")
    /\ Count(trace, "adb_connect") = 2
\* C6 as stated: when a dispatch ends by exhausting its attempts, the
\* escalation signal carries the name of the action that failed.
C6_SignalCarriesLabel ==
    Exhausted => \E k \in DOMAIN result.exc.args : result.exc.args[k] = func

\* C6 amended: when a dispatch ends by exhausting its attempts, the signal is
\* a bare RequestHumanTakeover with no arguments; the name of the failed
\* action is in the one critical log line written just before it is raised.
C6_LabelInCriticalLogOnly ==
    Exhausted =>
        LET line == trace[Len(trace) - 1]
        IN /\ Escalated
           /\ result.exc.args = <<>>
           /\ line.op = "logger.critical"
           /\ \E k \in DOMAIN line.arg : line.arg[k] = func
           /\ Count(trace, "logger.critical") = 1
           /\ trace[Len(trace)] = Ev("raise", result.exc)

C6_Witness ==
    /\ Exhausted
    /\ Escalated
    /\ func = "app_current_uiautomator2"
    /\ Calls(trace) = 2

\* C7 as stated: a dispatch returns normally only with the value of an attempt
\* that returned normally, and every other end of a dispatch, a failed
\* recovery call included, is the RequestHumanTakeover signal.
C7_ReturnOrEscalationOnly ==
    pc = "done" =>
        \/ /\ result.kind = "return"
           /\ \E p \in Successes :
                AttemptNo(p) = Calls(trace) /\ result.value = trace[p].arg
        \/ Escalated

\* C8: an AssertionError raised by the body is never retried: after it come
\* only its two log lines and the escalation (no further invocation, no
\* adb_connect, no install_uiautomator2, no sleep).
C8_AssertionNeverRetried ==
    \A p \in Failures : IsAssertion(trace[p].arg) =>
        StoppedAfter(p, <<"logger.exception", "possible_reasons">>)

C8_Witness ==
    /\ pc = "done"
    /\ Escalated
    /\ RETRY_TRIES = 3
    /\ \E p \in Failures : IsAssertion(trace[p].arg) /\ AttemptNo(p) = 2

\* C9: for an AdbError or a RuntimeError the helper alone decides: when it
\* answers True the attempt is retried like a Retryable one (sleep, next
\* attempt, no recovery call); when it answers False the wrapper stops at
\* once and escalates.
C9_HelperDecidesTransportErrors ==
    \A p \in Failures : IsTransport(trace[p].arg) =>
        IF handle_adb_error(trace[p].arg)
        THEN RetriedAfter(p, <<"handle_adb_error">>)
        ELSE StoppedAfter(p, <<"handle_adb_error">>)

C9_Witness ==
    /\ pc = "done"
    /\ \E p \in Failures :
        /\ trace[p].arg.type = "RuntimeError"
        /\ handle_adb_error(trace[p].arg)
        /\ NextCall(p) <= Len(trace)
    /\ \E p \in Failures :
        /\ trace[p].arg.type = "AdbError"
        /\ handle_adb_error(trace[p].arg)
        /\ NextCall(p) <= Len(trace)
    /\ \E p \in Failures :
        /\ trace[p].arg.type = "RuntimeError"
        /\ ~handle_adb_error(trace[p].arg)

\* C10: an error of a class no except clause names is retried: it is logged,
\* the wrapper sleeps RETRY_DELAY and makes the next attempt while one
\* remains, and the error itself never reaches the caller.
C10_UnknownErrorRetried ==
    \A p \in Failures : IsUnknown(trace[p].arg) =>
        /\ RetriedAfter(p, <<"logger.exception">>)
        /\ result.kind = "raise" => result.exc # trace[p].arg

C10_Witness ==
    /\ pc = "done"
    /\ RETRY_TRIES = 3
    /\ \E p \in Failures :
        /\ trace[p].arg.type = "ValueError"
        /\ AttemptNo(p) = 1
        /\ NextCall(p) <= Len(trace)
    /\ \E p \in Failures : trace[p].arg.type = "OSError" /\ AttemptNo(p) = 3
    /\ Escalated
\* C11: when u2.app_start answers the first attempt of app_start_uiautomator2
\* with a package-not-found BaseError, the dispatch escalates at once:
\* u2.app_start was called exactly once, no adb_connect, no
\* install_uiautomator2 and no sleep happens, and RequestHumanTakeover is raised.
C11_PackageNotFoundEscalates ==
    (/\ func = "app_start_uiautomator2"
     /\ Len(trace) >= 3
     /\ trace[3].op = "u2.raise"
     /\ isinstance(trace[3].arg, "BaseError"))
        => /\ Count(trace, "u2") = 1
           /\ Calls(trace) = 1
           /\ Count(trace, "adb_connect") = 0
           /\ Count(trace, "install_uiautomator2") = 0
           /\ Count(trace, "sleep") = 0
           /\ pc \in {"break", "done"}
           /\ pc = "done" =>
                /\ Escalated
                /\ Ops(trace) = <<"call", "u2", "u2.raise", "logger.error",
                                  "possible_reasons", "func.raise",
                                  "logger.critical", "raise">>

C11_Witness ==
    /\ func = "app_start_uiautomator2"
    /\ RETRY_TRIES = 3
    /\ pc = "done"
    /\ Escalated
    /\ Len(trace) >= 3
    /\ trace[2] = Ev("u2", "app_start")
    /\ trace[3] = Ev("u2.raise", Exc("BaseError", <<>>))
\* Reading the trace of a _drag_along dispatch

\* The touch events the device received during the attempt called at c.
Touches(c) ==
    SelectSeq(Segment(c),
              LAMBDA ev : ev.op \in {"touch.down", "touch.move", "touch.up"})

\* The same, with the sleeps between them.
TouchesAndSleeps(c) ==
    SelectSeq(Segment(c),
              LAMBDA ev : ev.op \in {"touch.down", "touch.move", "touch.up", "sleep"})

\* The attempt called at c ended with the body returning.
AttemptReturned(c) ==
    \E p \in Successes : c < p /\ p < NextCall(c)

\* What the device is to receive for waypoint k (1-based) of the path.
WaypointEvent(k) ==
    Ev(IF k = 1 THEN "touch.down"
       ELSE IF k = Len(path) THEN "touch.up"
       ELSE "touch.move",
       <<path[k][1], path[k][2]>>)

WholePath == [k \in 1..Len(path) |-> WaypointEvent(k)]

WholePathWithSleeps ==
    [m \in 1..(2 * Len(path)) |->
        IF m % 2 = 1 THEN WaypointEvent((m + 1) \div 2)
        ELSE Ev("sleep", path[m \div 2][3])]

\* C12: a successful traversal of a path of n >= 2 waypoints sends exactly
\* Down(path[0]), Move(path[1]) .. Move(path[n-2]), Up(path[n-1]) in path
\* order, each followed by a sleep of the waypoint's hold time; its last
\* event is the Up.
C12_TraversalDownMovesUp ==
    \A c \in DOMAIN trace :
        (trace[c].op = "call" /\ AttemptReturned(c) /\ Len(path) >= 2) =>
            /\ TouchesAndSleeps(c) = WholePathWithSleeps
            /\ Touches(c)[1].op = "touch.down"
            /\ Touches(c)[Len(path)].op = "touch.up"
            /\ Count(Touches(c), "touch.down") = 1
            /\ Count(Touches(c), "touch.up") = 1

C12_Witness ==
    /\ pc = "done"
    /\ result.kind = "return"
    /\ Len(path) = 3
    /\ Calls(trace) = 2
    /\ Count(trace, "touch.move") = 1
    /\ Count(trace, "touch.up") = 1

\* C13: after a device call failed at some waypoint of the path and the
\* dispatch goes on, the next attempt starts again at waypoint 0 with Down and
\* replays the same path in order; it never resumes where the failure was.
C13_RetryReplaysWholePath ==
    \A p \in Failures :
        LET c == NextCall(p)
        IN c <= Len(trace) =>
            /\ IsPrefix(Touches(c), WholePath)
            /\ AttemptReturned(c) => Touches(c) = WholePath
            /\ (pc = "path" /\ NextCall(c) > Len(trace)) => index = Len(Touches(c))

C13_Witness ==
    /\ pc = "done"
    /\ result.kind = "return"
    /\ Len(path) = 3
    /\ \E p \in Failures :
        /\ trace[p - 2] = Ev("u2", "touch.up")
        /\ NextCall(p) <= Len(trace)
        /\ Touches(NextCall(p)) = WholePath
        /\ Touches(NextCall(p))[1] = Ev("touch.down", <<403, 421>>)
\* Reading the result of drag_uiautomator2

\* Line 158 has run: synth.path is the path of this call.
SynthDone == synth.pc \in {"_drag_along", "called"}

\* The denominator of the coordinates of this run.
SDen == Den(synth.args.segments)

\* The real value v (in 1/SDen pixels) is a whole number of pixels.
IsWhole(v) == v % SDen = 0

\* The pixel count c as a real value, in 1/SDen pixels.
Real(c) == c * SDen

\* c is a whole number of pixels less than one pixel away from the real
\* value v, and v itself when v is whole.
PixelOf(c, v) ==
    /\ c \in Int
    /\ Real(c) - v < SDen
    /\ v - Real(c) < SDen
    /\ IsWhole(v) => Real(c) = v

\* Waypoint w lies on the pixel of the real point q and holds for d.
WaypointAt(w, q, d) == PixelOf(w[1], q[1]) /\ PixelOf(w[2], q[2]) /\ w[3] = d

\* The waypoint at the real point q holding for d, before line 158.
RawAt(q, d) == <<q[1], q[2], d>>

\* The arguments and samples of this run, in 1/SDen pixels.
ArgP1 == VMul(synth.args.segments, synth.args.p1)
ArgP2 == VMul(synth.args.segments, synth.args.p2)
ArgShake == VMul(synth.args.segments, synth.args.shake)
SampleA == VMul(SDen, synth.ja)
SampleB == VMul(SDen, synth.jb)

\* C14: the path handed to _drag_along is the path computed; with
\* segments = 1, shake = (0, 15) and zero jitter ranges the path has
\* exactly the 5 waypoints start, end, overshoot, correction, settle, in this
\* order; for every input the path has at least 2 waypoints and every x and y
\* in it is a whole number of pixels.
C14_PathShape ==
    SynthDone =>
        /\ synth.pc = "called" => path = synth.path
        /\ Len(synth.path) >= 2
        /\ \A k \in DOMAIN synth.path :
            synth.path[k][1] \in Int /\ synth.path[k][2] \in Int
        /\ (/\ synth.args.segments = 1
            /\ synth.args.shake = Vec(0, 15 * Scale)
            /\ synth.args.point_random = <<0, 0, 0, 0>>
            /\ synth.args.shake_random = <<0, 0, 0, 0>>)
                => /\ Len(synth.path) = 5
                   /\ WaypointAt(synth.path[1], ArgP1, synth.args.swipe_duration)
                   /\ WaypointAt(synth.path[2], ArgP2, synth.args.swipe_duration)
                   /\ WaypointAt(synth.path[3], VAdd(ArgP2, Vec(0, 15 * Scale)),
                                 synth.args.shake_duration)
                   /\ WaypointAt(synth.path[4], VSub(ArgP2, Vec(0, 15 * Scale)),
                                 synth.args.shake_duration)
                   /\ WaypointAt(synth.path[5], ArgP2, synth.args.shake_duration)

C14_Witness ==
    /\ SynthDone
    /\ synth.args.segments = 1
    /\ synth.args.point_random = <<0, 0, 0, 0>>
    /\ synth.args.shake_random = <<0, 0, 0, 0>>
    /\ synth.path = << <<403, 421, 250>>, <<821, 326, 250>>, <<821, 341, 100>>,
                       <<821, 311, 100>>, <<821, 326, 100>> >>

\* C15: the last three waypoints of every path are, in order, the overshoot
\* at p2 + shake + j1, the correction at p2 - shake - j2 and the settle
\* waypoint at p2 (p2 as moved at line 151; j1, j2 two separate samples of
\* shake_random), each on the pixel of that point; the three hold for
\* shake_duration and every waypoint before them for swipe_duration.
C15_ShakeTail ==
    SynthDone =>
        LET n == Len(synth.path)
        IN /\ n >= 4
           /\ Len(synth.raw) = n
           /\ synth.raw[n - 2] = RawAt(VAdd(VAdd(synth.p2, ArgShake), SampleA),
                                       synth.args.shake_duration)
           /\ synth.raw[n - 1] = RawAt(VSub(VSub(synth.p2, ArgShake), SampleB),
                                       synth.args.shake_duration)
           /\ synth.raw[n] = RawAt(synth.p2, synth.args.shake_duration)
           /\ WaypointAt(synth.path[n - 2], VAdd(VAdd(synth.p2, ArgShake), SampleA),
                         synth.args.shake_duration)
           /\ WaypointAt(synth.path[n - 1], VSub(VSub(synth.p2, ArgShake), SampleB),
                         synth.args.shake_duration)
           /\ WaypointAt(synth.path[n], synth.p2, synth.args.shake_duration)
           /\ \A k \in 1..(n - 3) : synth.path[k][3] = synth.args.swipe_duration

C15_Witness ==
    /\ SynthDone
    /\ synth.ja # synth.jb
    /\ synth.args.segments = 2
    /\ Len(synth.path) = 6
    /\ synth.args.shake_random # <<0, 0, 0, 0>>
    /\ synth.args.point_random # <<0, 0, 0, 0>>
    /\ synth.p2 # ArgP2

\* C18 as stated: every coordinate of the path is the computed real value
\* rounded to the nearest whole pixel (at most half a pixel away), and the
\* durations are passed through unchanged.
C18_RoundedToNearest ==
    SynthDone =>
        /\ Len(synth.path) = Len(synth.raw)
        /\ \A k \in DOMAIN synth.path :
            /\ \A a \in 1..2 :
                /\ synth.path[k][a] \in Int
                /\ 2 * (Real(synth.path[k][a]) - synth.raw[k][a]) <= SDen
                /\ 2 * (synth.raw[k][a] - Real(synth.path[k][a])) <= SDen
            /\ synth.path[k][3] = synth.raw[k][3]

\* C18 amended: every coordinate of the path is the computed real value with
\* its fraction dropped, towards zero (less than one pixel away, never
\* farther from zero); the durations are passed through unchanged.
C18_TruncatedTowardsZero ==
    SynthDone =>
        /\ Len(synth.path) = Len(synth.raw)
        /\ \A k \in DOMAIN synth.path :
            /\ \A a \in 1..2 :
                LET c == Real(synth.path[k][a])
                    v == synth.raw[k][a]
                IN /\ synth.path[k][a] \in Int
                   /\ v >= 0 => (0 <= c /\ c <= v /\ v - c < SDen)
                   /\ v <= 0 => (v <= c /\ c <= 0 /\ c - v < SDen)
            /\ synth.path[k][3] = synth.raw[k][3]

C18_Witness ==
    /\ SynthDone
    /\ \E k \in DOMAIN synth.path :
        synth.raw[k][2] < 0 /\ ~IsWhole(synth.raw[k][2])
    /\ \E k \in DOMAIN synth.path :
        synth.raw[k][1] > 0 /\ 2 * (synth.raw[k][1] - Real(synth.path[k][1])) > SDen
---------------------------------------------------------------------------
\* Claims about the end of a dispatch

CriticalLines == { p \in DOMAIN trace : trace[p].op = "logger.critical" }

\* A recovery call of this dispatch raised (lines 30, 35).
RecoveryRaised ==
    /\ pc = "done"
    /\ Len(trace) >= 2
    /\ trace[Len(trace)].op = "raise"
    /\ trace[Len(trace) - 1].op \in {"adb_connect", "install_uiautomator2"}

\* C16 as stated: every dispatch that ends with RequestHumanTakeover has
\* written, before the raise, exactly one critical log line, which names the
\* action that failed; a dispatch that returns has written none.
C16_OneCriticalLineBeforeEscalation ==
    /\ (pc = "done" /\ Escalated) =>
        /\ Cardinality(CriticalLines) = 1
        /\ \A p \in CriticalLines :
            /\ p < Len(trace)
            /\ trace[p].arg = <<"Retry ", func, "() failed">>
        /\ trace[Len(trace)].op = "raise"
    /\ (pc = "done" /\ result.kind = "return") => CriticalLines = {}

\* A failure after which the loop breaks: no recovery, no sleep.
IsFatalBreak(e) ==
    \/ IsTakeover(e)
    \/ IsAssertion(e)
    \/ IsTransport(e) /\ ~IsReset(e) /\ ~IsJson(e) /\ ~handle_adb_error(e)

Sleeps(tr) == Count(tr, "sleep")

\* C19 as stated: after every failed attempt that is not a fatal break there
\* is exactly one sleep of RETRY_DELAY, after the recovery call and before the
\* next attempt (also after the last attempt); there is none after a
\* successful attempt or a fatal break; a dispatch sleeps at most RETRY_TRIES
\* times.
C19_OneSleepPerNonFatalFailure ==
    /\ \A p \in Failures :
        LET seg == Segment(p)
        IN /\ Sleeps(seg) <= (IF IsFatalBreak(trace[p].arg) THEN 0 ELSE 1)
           /\ SegmentDone(p) =>
                Sleeps(seg) = (IF IsFatalBreak(trace[p].arg) THEN 0 ELSE 1)
           /\ \A q \in DOMAIN seg : seg[q].op = "sleep" =>
                /\ seg[q].arg = RETRY_DELAY
                /\ \A r \in DOMAIN seg :
                    seg[r].op \in {"adb_connect", "install_uiautomator2"} => r < q
    /\ \A p \in Successes : Sleeps(After(p)) = 0
    /\ Sleeps(trace) <= RETRY_TRIES
---------------------------------------------------------------------------
\* Uiautomator2.u2: the cached connection of one Uiautomator2 object
\*
\* session.cache is the entry 'u2' of the object's attribute cache, NoDevice
\* when there is none.  A device is the object u2.connect returned (id) with
\* the command timeout set on it.

NoDevice == [id |-> 0, timeout |-> 0]

\* u2.connect(self.serial): a new device object, no command timeout set yet.
connect(id) == [id |-> id, timeout |-> 0]

\* Faulty variant: the timeout is not set.
set_new_command_timeout_skipped(device, timeout) == device

\* device.set_new_command_timeout(604800)
set_new_command_timeout(device, timeout) == [device EXCEPT !.timeout = timeout]

\* @cached_property: the value the getter returned is kept for later reads.
cached_property(cache, value) == value

InitSession ==
    /\ RETRY_TRIES = 1
    /\ pc = "idle"
    /\ func = "None"
    /\ i = 0
    /\ trace = <<>>
    /\ result = NoResult
    /\ ndispatch = 0
    /\ earlier = <<>>
    /\ path = <<>>
    /\ index = 0
    /\ synth = [pc |-> "idle"]
    /\ session = [pc |-> "idle", cache |-> NoDevice, device |-> NoDevice,
                  got |-> NoDevice, before |-> NoDevice, fresh |-> FALSE,
                  dropped |-> FALSE, created |-> 0, invalidated |-> 0,
                  steps |-> 0, failed |-> 0]

nosession == <<RETRY_TRIES, pc, func, i, trace, result, ndispatch, earlier, path, index, synth>>

\* self.u2 read while the value is cached: the getter does not run.
u2_cached ==
    /\ session.pc = "idle"
    /\ session.steps < MaxSession
    /\ session.cache # NoDevice
    /\ session' = [session EXCEPT !.got = session.cache, !.before = session.got,
                                  !.fresh = session.dropped, !.dropped = FALSE,
                                  !.steps = @ + 1]
    /\ UNCHANGED nosession

\* self.u2 read while nothing is cached: the getter starts.
u2 ==
    /\ session.pc = "idle"
    /\ session.steps < MaxSession
    /\ session.cache = NoDevice
    /\ session' = [session EXCEPT !.pc = "connect", !.steps = @ + 1]
    /\ UNCHANGED nosession

\* device = u2.connect(self.serial)
connect_returns ==
    /\ session.pc = "connect"
    /\ session' = [session EXCEPT !.pc = "set_new_command_timeout",
                                  !.device = connect(session.steps)]
    /\ UNCHANGED nosession

\* device.set_new_command_timeout(604800)
set_new_command_timeout_returns ==
    /\ session.pc = "set_new_command_timeout"
    /\ session' = [session EXCEPT !.pc = "return",
                                  !.device = set_new_command_timeout(session.device, 604800)]
    /\ UNCHANGED nosession

\* connect or set_new_command_timeout raises: the getter ends, nothing is cached.
getter_raises ==
    /\ session.pc \in {"connect", "set_new_command_timeout"}
    /\ session' = [session EXCEPT !.pc = "idle", !.device = NoDevice, !.failed = @ + 1]
    /\ UNCHANGED nosession

\* return device
u2_returns ==
    /\ session.pc = "return"
    /\ session' = [session EXCEPT !.pc = "idle",
                                  !.cache = cached_property(session.cache, session.device),
                                  !.got = session.device, !.before = session.got,
                                  !.fresh = session.dropped, !.dropped = FALSE,
                                  !.device = NoDevice, !.created = @ + 1]
    /\ UNCHANGED nosession

\* self.adb_connect(self.serial) / self.install_uiautomator2() between two
\* reads: the step may drop the cached value.
recovery(invalidate) ==
    /\ session.pc = "idle"
    /\ session.steps < MaxSession
    /\ session' = [session EXCEPT
                       !.steps = @ + 1,
                       !.cache = IF invalidate THEN NoDevice ELSE @,
                       !.dropped = @ \/ (invalidate /\ session.cache # NoDevice),
                       !.invalidated = IF invalidate /\ session.cache # NoDevice
                                       THEN @ + 1 ELSE @]
    /\ UNCHANGED nosession

NextSession ==
    \/ u2_cached
    \/ u2
    \/ connect_returns
    \/ set_new_command_timeout_returns
    \/ getter_raises
    \/ u2_returns
    \/ \E invalidate \in BOOLEAN : recovery(invalidate)

SpecSession == InitSession /\ [][NextSession]_vars

\* C17: over any sequence of reads of self.u2 and recovery steps on one
\* object, a connection is created (connected and given the 604800 s command
\* timeout) only by a read that finds none cached, at most once plus once per
\* invalidation by a recovery step; the cached object always has the timeout
\* set, and a read returns the very object the previous read returned unless
\* a recovery step invalidated it in between.
C17_ConnectionMemoized ==
    /\ session.created <= 1 + session.invalidated
    /\ session.cache # NoDevice =>
        /\ session.cache.timeout = 604800
        /\ session.cache = session.got
    /\ session.got # NoDevice => session.got.timeout = 604800
    /\ (session.before # NoDevice /\ ~session.fresh) => session.got = session.before
    /\ session.fresh => session.got # session.before
    /\ session.pc # "idle" => session.cache = NoDevice

C17_Witness ==
    /\ session.pc = "idle"
    /\ session.created = 2
    /\ session.invalidated = 1
    /\ session.before # NoDevice
    /\ session.got = session.before
    /\ ~session.fresh
    /\ session.failed = 1
\* A dispatch is under way.
Running == pc \notin {"idle", "done"}

\* C20: when every call of the body, of adb_connect, of install_uiautomator2
\* and of sleep ends, every dispatch ends, with a return or a raise: whatever
\* the body and the recovery calls raise, the loop never invokes the body more
\* than RETRY_TRIES times, and a dispatch under way always reaches its end.
C20_EveryDispatchTerminates ==
    /\ [](Calls(trace) <= RETRY_TRIES)
    /\ [](Running => <>(pc = "done" /\ result.kind \in {"return", "raise"}))

C20_Witness ==
    /\ pc = "done"
    /\ result.kind = "raise"
    /\ RETRY_TRIES = 3
    /\ Calls(trace) = 3
    /\ \E p, q, r \in Failures :
        /\ p < q /\ q < r
        /\ IsReset(trace[p].arg) /\ IsJson(trace[q].arg) /\ IsUnknown(trace[r].arg)
    /\ Sleeps(trace) = 3

====
